---- MODULE Spec2Model ----
(***************************************************************************)
(* Model of WebCrawler (src/crawler.py): the shared priority queue          *)
(* url_queue, the sets visited_urls and content_hashes, the lock, the       *)
(* worker threads started by crawl(), and the per-URL pipeline visit_url.   *)
(*                                                                          *)
(* Modelling conventions                                                    *)
(*  - A URL "https://<host><path>" is the record [host, path].              *)
(*  - A Python value handed to visit_url or stored in visited_urls is a     *)
(*    record [isTuple, prio, url]: Str(u) is the string u, Entry(p, u) the  *)
(*    tuple (p, u) as it is stored in url_queue.                            *)
(*  - Priorities are kept as twice their value (0.5 -> 1, 1 -> 2).          *)
(*  - Names from urllib are taken to be those of urllib.parse.              *)
(***************************************************************************)
EXTENDS Integers, Sequences, FiniteSets, TLC

\* ------------------------------------------------------------------ bounds
\* The largest max_threads.
MaxThreads == 2
\* The threads that call the crawler's methods directly, and the number of
\* calls they make in all.
MaxCallers == 2
MaxCalls == 3

Workers == 1..MaxThreads
Callers == 1..MaxCallers
Threads == Workers \cup Callers

\* ------------------------------------------------------- the URL universe
Hosts == {"example.com", "sub.example.com", "external.com"}
Paths == {"", "/about", "/login"}
URL == [host : Hosts, path : Paths]

U(h, p) == [host |-> h, path |-> p]
Home == U("example.com", "")
About == U("example.com", "/about")
Login == U("example.com", "/login")
SubHome == U("sub.example.com", "")
External == U("external.com", "")

\* An href of an anchor: absolute, or a path relative to the page's host.
AbsRef(u) == [abs |-> TRUE, host |-> u.host, path |-> u.path]
RelRef(p) == [abs |-> FALSE, host |-> "", path |-> p]

\* Python values: the string u, and the tuple (p, u).
Str(u) == [isTuple |-> FALSE, prio |-> 0, url |-> u]
Entry(p, u) == [isTuple |-> TRUE, prio |-> p, url |-> u]

\* The values visit_url is called with.
PyValues ==
  {Str(u) : u \in URL} \cup {Entry(p, u) : p \in {1, 2}, u \in URL}

\* Priorities, doubled.
SeedPriority == 1
PaginationPriority == 1
DefaultPriority == 2

\* ------------------------------------------------------------ the servers
\* A site maps every URL to its page: the body (an identifier of the page's
\* text) and the anchors' hrefs in document order.
Page(b, l) == [body |-> b, links |-> l]

RichSite ==
  [u \in URL |->
     IF u = Home
       THEN Page("home", <<RelRef("/about"), AbsRef(SubHome), RelRef("/login"),
                           AbsRef(External), AbsRef(Home)>>)
     ELSE IF u = About THEN Page("about", <<AbsRef(Home), RelRef("/login")>>)
     ELSE IF u = Login THEN Page("home", <<RelRef("/about")>>)
     ELSE IF u = SubHome THEN Page("sub", <<AbsRef(Home), RelRef("/about")>>)
     ELSE Page("other", <<>>)]

\* The cyclic graph A -> B, B -> A with A = Home and B = About.
CyclicSite ==
  [u \in URL |->
     IF u = Home THEN Page("a", <<RelRef("/about")>>)
     ELSE IF u = About THEN Page("b", <<AbsRef(Home)>>)
     ELSE Page("other", <<>>)]

Sites == {RichSite, CyclicSite}
Seeds == {Home, SubHome}
PatternLists == {<<>>, <<"login">>}

VARIABLES
  start_url,         \* self.start_url
  base_domain,       \* self.base_domain
  exclude_patterns,  \* self.exclude_patterns
  max_threads,       \* self.max_threads
  web,               \* the site behind requests.get
  visited_urls,      \* self.visited_urls
  content_hashes,    \* self.content_hashes
  url_queue,         \* self.url_queue: the pending tuples, in insertion order
  unfinished_tasks,  \* url_queue.unfinished_tasks
  lock,              \* self.lock: 0 when free, else the holding thread
  pc,                \* each thread's position
  arg,               \* each thread's `url` parameter of visit_url
  resp,              \* each thread's response.text ("" when none)
  found,             \* each thread's result of `hash_content in content_hashes`
  links,             \* each thread's last result of extract_links
  link_base,         \* each thread's base_url in that call of extract_links
  started,           \* threads started by crawl()
  joined,            \* threads joined by crawl()
  calls,             \* direct calls made so far
  fetches,           \* history: the number of requests issued per argument
  paced,             \* history: each thread's last request or sleep
  put_log            \* history: every tuple ever put on url_queue

vars == <<start_url, base_domain, exclude_patterns, max_threads, web,
          visited_urls, content_hashes, url_queue, unfinished_tasks, lock,
          pc, arg, resp, found, links, link_base, started, joined, calls,
          fetches, paced, put_log>>

\* The last call of extract_links of each thread.
extracted == <<links, link_base>>

\* What no step changes after __init__.
config == <<start_url, base_domain, exclude_patterns, max_threads, web>>

\* ---------------------------------------------------------- URL classifier
\* urlparse(url).netloc
Netloc(url) == url.host

\* re.search(pattern, url): the pattern occurs somewhere in the URL string,
\* host included.
re_search(pattern, url) ==
  \/ pattern = "login" /\ url.path = "/login"
  \/ pattern = "about" /\ url.path = "/about"
  \/ pattern = "sub" /\ url.host = "sub.example.com"

is_same_domain(url, base) == Netloc(url) = base

\* Variant: re.match in place of re.search.  Every URL string starts with
\* "https://", so no pattern matches at its start.
should_visit_match(url, patterns) == TRUE

should_visit(url, patterns) ==
  \A i \in 1..Len(patterns) : ~re_search(patterns[i], url)

\* urljoin(base_url, href)
urljoin(base, href) ==
  IF href.abs THEN U(href.host, href.path) ELSE U(base.host, href.path)

\* Variant: links.insert(0, full_url) in place of links.append(full_url).
RECURSIVE extract_links_prepend(_, _, _, _)
extract_links_prepend(hrefs, base_url, base, patterns) ==
  IF hrefs = <<>> THEN <<>>
  ELSE LET full_url == urljoin(base_url, Head(hrefs))
           rest == extract_links_prepend(Tail(hrefs), base_url, base, patterns)
       IN IF is_same_domain(full_url, base) /\ should_visit(full_url, patterns)
            THEN rest \o <<full_url>>
            ELSE rest

\* extract_links(soup, base_url): the anchors are the page's hrefs.
RECURSIVE extract_links(_, _, _, _)
extract_links(hrefs, base_url, base, patterns) ==
  IF hrefs = <<>> THEN <<>>
  ELSE LET full_url == urljoin(base_url, Head(hrefs))
           rest == extract_links(Tail(hrefs), base_url, base, patterns)
       IN IF is_same_domain(full_url, base) /\ should_visit(full_url, patterns)
            THEN <<full_url>> \o rest
            ELSE rest

\* hashlib.sha256(content.encode('utf-8')).hexdigest()
Sha256(content) == <<"sha256", content>>

\* Variant: the result negated, a recorded fingerprint reported as new.
is_duplicate_content_inverted(was_found) == ~was_found

\* The value is_duplicate_content returns, given whether the hash was found.
is_duplicate_content(was_found) == TRUE

\* Variant: the registered domain in place of the netloc.
BaseDomainOf_registered(url) ==
  IF Netloc(url) = "sub.example.com" THEN "example.com" ELSE Netloc(url)

\* __init__: base_domain = urlparse(start_url).netloc
BaseDomainOf(url) == Netloc(url)

\* ------------------------------------------------------------- url_queue
\* Order of the URL strings, as Python compares them.
UrlRank(u) ==
  CASE u = U("example.com", "") -> 1
    [] u = U("example.com", "/about") -> 2
    [] u = U("example.com", "/login") -> 3
    [] u = U("external.com", "") -> 4
    [] u = U("external.com", "/about") -> 5
    [] u = U("external.com", "/login") -> 6
    [] u = U("sub.example.com", "") -> 7
    [] u = U("sub.example.com", "/about") -> 8
    [] u = U("sub.example.com", "/login") -> 9

\* Tuple comparison (priority, url) <= (priority, url).
TupleLeq(a, b) ==
  \/ a.prio < b.prio
  \/ a.prio = b.prio /\ UrlRank(a.url) <= UrlRank(b.url)

\* Variant: queue.Queue in place of queue.PriorityQueue, first in first out.
MinIndex_fifo(q) == 1

\* PriorityQueue.get(): the index of the smallest pending tuple.
MinIndex(q) ==
  CHOOSE i \in 1..Len(q) : \A j \in 1..Len(q) : TupleLeq(q[i], q[j])

RemoveAt(q, i) == SubSeq(q, 1, i - 1) \o SubSeq(q, i + 1, Len(q))


\* ------------------------------------------------------------- the fetch
\* No URL, for a thread that has not called extract_links.
NoUrl == U("", "")

\* None, for a thread that holds no argument.
None == [isTuple |-> FALSE, prio |-> -1, url |-> Home]

\* requests.get(url) followed by raise_for_status(): the outcomes.  "error"
\* is a RequestException.  A tuple is no URL: requests turns it into the
\* text "(0.5, 'https://...')", finds no connection adapter for it and
\* raises InvalidSchema, a RequestException.  For a string the server
\* answers with the page's text, or the request fails.
Responses(a, site) ==
  IF a.isTuple THEN {"error"} ELSE {"error", site[a.url].body}

\* Lines 106-108: the loop over the links raises TypeError at the first link
\* that is not visited and is same-domain, because
\* `[item[1] for item in self.url_queue]` iterates a PriorityQueue.
LinkLoopRaises(ls, visited, base) ==
  \E i \in 1..Len(ls) :
    Str(ls[i]) \notin visited /\ is_same_domain(ls[i], base)

\* The worker loop without line 77.
ReturnTo_nosleep(t) == IF t <= started THEN "w_task_done" ELSE "c_idle"

\* Where visit_url returns to: the worker loop (line 77) or the caller.
ReturnTo(t) == IF t <= started THEN "w_sleep" ELSE "c_idle"

\* ----------------------------------------------------------------- __init__
InitObject ==
  /\ base_domain = BaseDomainOf(start_url)
  /\ exclude_patterns \in PatternLists
  /\ web \in Sites
  /\ visited_urls = {}
  /\ content_hashes = {}
  /\ url_queue = <<Entry(SeedPriority, start_url)>>
  /\ unfinished_tasks = 1
  /\ lock = 0
  /\ arg = [t \in Threads |-> None]
  /\ resp = [t \in Threads |-> ""]
  /\ found = [t \in Threads |-> FALSE]
  /\ links = [t \in Threads |-> <<>>]
  /\ link_base = [t \in Threads |-> NoUrl]
  /\ started = 0
  /\ joined = 0
  /\ calls = 0
  /\ fetches = [a \in PyValues |-> 0]
  /\ paced = [t \in Threads |-> "none"]
  /\ put_log = <<Entry(SeedPriority, start_url)>>

Init ==
  /\ start_url \in Seeds
  /\ max_threads \in 1..MaxThreads
  /\ InitObject
  /\ pc = [t \in Threads |-> "not_started"]

\* ------------------------------------------------------------------ crawl()
\* Lines 56-59: start the next worker thread.
StartThread ==
  /\ started < max_threads
  /\ started' = started + 1
  /\ pc' = [pc EXCEPT ![started + 1] = "w_empty"]
  /\ UNCHANGED <<config, extracted, paced, visited_urls, content_hashes,
                 url_queue, unfinished_tasks, lock, arg, resp, found, joined,
                 calls, fetches, put_log>>

\* Lines 61-62: join the threads in the order they were started.
JoinThread ==
  /\ started = max_threads
  /\ joined < max_threads
  /\ pc[joined + 1] \in {"done", "crashed"}
  /\ joined' = joined + 1
  /\ UNCHANGED <<config, extracted, paced, visited_urls, content_hashes,
                 url_queue, unfinished_tasks, lock, pc, arg, resp, found,
                 started, calls, fetches, put_log>>

\* ----------------------------------------------------------------- worker()
\* Line 74: while not self.url_queue.empty()
WorkerEmpty(t) ==
  /\ pc[t] = "w_empty"
  /\ pc' = [pc EXCEPT ![t] = IF url_queue = <<>> THEN "done" ELSE "w_get"]
  /\ UNCHANGED <<config, extracted, paced, visited_urls, content_hashes,
                 url_queue, unfinished_tasks, lock, arg, resp, found, started,
                 joined, calls, fetches, put_log>>

\* Lines 75-76: current_url = self.url_queue.get() blocks while the queue is
\* empty; the tuple it returns is handed to visit_url.
WorkerGet(t) ==
  /\ pc[t] = "w_get"
  /\ url_queue # <<>>
  /\ LET i == MinIndex(url_queue)
     IN /\ arg' = [arg EXCEPT ![t] = url_queue[i]]
        /\ url_queue' = RemoveAt(url_queue, i)
  /\ resp' = [resp EXCEPT ![t] = ""]
  /\ found' = [found EXCEPT ![t] = FALSE]
  /\ pc' = [pc EXCEPT ![t] = "v_check"]
  /\ UNCHANGED <<config, extracted, paced, visited_urls, content_hashes,
                 unfinished_tasks, lock, started, joined, calls, fetches,
                 put_log>>

\* Line 77: time.sleep(self.delay)
WorkerSleep(t) ==
  /\ pc[t] = "w_sleep"
  /\ pc' = [pc EXCEPT ![t] = "w_task_done"]
  /\ paced' = [paced EXCEPT ![t] = IF @ = "fetched" THEN "slept" ELSE @]
  /\ UNCHANGED <<config, extracted, visited_urls, content_hashes, url_queue,
                 unfinished_tasks, lock, arg, resp, found, started, joined,
                 calls, fetches, put_log>>

\* Line 78: self.url_queue.task_done(), then back to the loop test.
WorkerTaskDone(t) ==
  /\ pc[t] = "w_task_done"
  /\ unfinished_tasks' = unfinished_tasks - 1
  /\ pc' = [pc EXCEPT ![t] = "w_empty"]
  /\ UNCHANGED <<config, extracted, paced, visited_urls, content_hashes,
                 url_queue, lock, arg, resp, found, started, joined, calls,
                 fetches, put_log>>

\* --------------------------------------------------------------- visit_url
\* Lines 90-91: if url in self.visited_urls: return
VisitCheck(t) ==
  /\ pc[t] = "v_check"
  /\ pc' = [pc EXCEPT ![t] =
              IF arg[t] \in visited_urls THEN ReturnTo(t) ELSE "v_acquire"]
  /\ UNCHANGED <<config, extracted, paced, visited_urls, content_hashes,
                 url_queue, unfinished_tasks, lock, arg, resp, found, started,
                 joined, calls, fetches, put_log>>

\* Line 93: with self.lock (acquire)
LockAcquire(t) ==
  /\ pc[t] = "v_acquire"
  /\ lock = 0
  /\ lock' = t
  /\ pc' = [pc EXCEPT ![t] = "v_add"]
  /\ UNCHANGED <<config, extracted, paced, visited_urls, content_hashes,
                 url_queue, unfinished_tasks, arg, resp, found, started,
                 joined, calls, fetches, put_log>>

\* Variant: the argument is not added before the request.
VisitedAdd_late(t) ==
  /\ pc[t] = "v_add"
  /\ lock' = 0
  /\ pc' = [pc EXCEPT ![t] = "v_fetch"]
  /\ UNCHANGED <<config, extracted, paced, visited_urls, content_hashes,
                 url_queue, unfinished_tasks, arg, resp, found, started,
                 joined, calls, fetches, put_log>>

\* Variant: the request is made inside the with block, the lock still held.
VisitedAdd_holdLock(t) ==
  /\ pc[t] = "v_add"
  /\ visited_urls' = visited_urls \cup {arg[t]}
  /\ pc' = [pc EXCEPT ![t] = "v_fetch"]
  /\ UNCHANGED <<config, extracted, paced, content_hashes, url_queue,
                 unfinished_tasks, lock, arg, resp, found, started, joined,
                 calls, fetches, put_log>>

\* Variant: the links of the argument's page are marked visited together
\* with the argument.
VisitedAdd_withLinks(t) ==
  /\ pc[t] = "v_add"
  /\ visited_urls' =
       visited_urls \cup {arg[t]} \cup
         {Str(urljoin(arg[t].url, web[arg[t].url].links[i])) :
            i \in 1..Len(web[arg[t].url].links)}
  /\ lock' = 0
  /\ pc' = [pc EXCEPT ![t] = "v_fetch"]
  /\ UNCHANGED <<config, extracted, paced, content_hashes, url_queue,
                 unfinished_tasks, arg, resp, found, started, joined, calls,
                 fetches, put_log>>

\* Line 94 and the end of the with block: add the argument, release the lock.
VisitedAdd(t) ==
  /\ pc[t] = "v_add"
  /\ visited_urls' = visited_urls \cup {arg[t]}
  /\ lock' = 0
  /\ pc' = [pc EXCEPT ![t] = "v_fetch"]
  /\ UNCHANGED <<config, extracted, paced, content_hashes, url_queue,
                 unfinished_tasks, arg, resp, found, started, joined, calls,
                 fetches, put_log>>

\* Variant: the RequestException is not caught and ends the thread.
OnRequestException_uncaught(t) == "crashed"

\* Lines 115-116: the RequestException is caught and logged, and visit_url
\* returns normally.
OnRequestException(t) == ReturnTo(t)

\* Lines 97-98 and 115-116: the request; a RequestException is logged and
\* visit_url returns.
Fetch(t) ==
  /\ pc[t] = "v_fetch"
  /\ fetches' = [fetches EXCEPT ![arg[t]] = @ + 1]
  /\ paced' = [paced EXCEPT ![t] = "fetched"]
  /\ \E r \in Responses(arg[t], web) :
       IF r = "error"
         THEN /\ pc' = [pc EXCEPT ![t] = OnRequestException(t)]
              /\ resp' = [resp EXCEPT ![t] = ""]
         ELSE /\ pc' = [pc EXCEPT ![t] = "d_check"]
              /\ resp' = [resp EXCEPT ![t] = r]
  /\ UNCHANGED <<config, extracted, visited_urls, content_hashes, url_queue,
                 unfinished_tasks, lock, arg, found, started, joined, calls,
                 put_log>>

\* Lines 177-179 of is_duplicate_content: hash the text and test membership.
DedupCheck(t) ==
  /\ pc[t] = "d_check"
  /\ found' = [found EXCEPT ![t] = Sha256(resp[t]) \in content_hashes]
  /\ pc' = [pc EXCEPT ![t] =
              IF Sha256(resp[t]) \in content_hashes THEN "v_branch" ELSE "d_add"]
  /\ UNCHANGED <<config, extracted, paced, visited_urls, content_hashes,
                 url_queue, unfinished_tasks, lock, arg, resp, started,
                 joined, calls, fetches, put_log>>

\* Line 181: self.content_hashes.add(hash_content)
DedupAdd(t) ==
  /\ pc[t] = "d_add"
  /\ content_hashes' = content_hashes \cup {Sha256(resp[t])}
  /\ pc' = [pc EXCEPT ![t] = "v_branch"]
  /\ UNCHANGED <<config, extracted, paced, visited_urls, url_queue,
                 unfinished_tasks, lock, arg, resp, found, started, joined,
                 calls, fetches, put_log>>

\* Lines 100-114: on the value is_duplicate_content returned, either skip the
\* page or extract its links and run the loop over them.  The loop puts
\* nothing: it ends in TypeError at the first unvisited link, or finds every
\* link visited.
VisitBranch(t) ==
  /\ pc[t] = "v_branch"
  /\ LET ls == extract_links(web[arg[t].url].links, arg[t].url,
                             base_domain, exclude_patterns)
     IN IF is_duplicate_content(found[t])
          THEN /\ pc' = [pc EXCEPT ![t] = ReturnTo(t)]
               /\ links' = links
               /\ link_base' = link_base
          ELSE /\ pc' = [pc EXCEPT ![t] =
                          IF LinkLoopRaises(ls, visited_urls, base_domain)
                            THEN "crashed" ELSE ReturnTo(t)]
               /\ links' = [links EXCEPT ![t] = ls]
               /\ link_base' = [link_base EXCEPT ![t] = arg[t].url]
  /\ UNCHANGED <<config, paced, visited_urls, content_hashes, url_queue,
                 unfinished_tasks, lock, arg, resp, found, started, joined,
                 calls, fetches, put_log>>

\* ----------------------------------------------------- the crawl, as run
\* A worker's requests fail (its argument is a tuple), so the steps after a
\* successful request are reached only from direct calls of visit_url.
WorkerStep(t) ==
  \/ WorkerEmpty(t)
  \/ WorkerGet(t)
  \/ VisitCheck(t)
  \/ LockAcquire(t)
  \/ VisitedAdd(t)
  \/ Fetch(t)
  \/ WorkerSleep(t)
  \/ WorkerTaskDone(t)

Next ==
  \/ StartThread
  \/ JoinThread
  \/ \E t \in Workers : WorkerStep(t)

Spec == Init /\ [][Next]_vars

\* Each started thread keeps running; crawl() keeps starting and joining.
FairSpec ==
  /\ Spec
  /\ WF_vars(StartThread)
  /\ WF_vars(JoinThread)
  /\ \A t \in Workers : WF_vars(WorkerStep(t))

\* ------------------------------------ the crawl with a failing visit
\* An exception that is not a RequestException is raised inside the try
\* block of visit_url.  Line 115 does not catch it and worker() has no
\* handler, so it ends the worker's thread.
VisitRaises(t) ==
  /\ pc[t] = "v_fetch"
  /\ fetches' = [fetches EXCEPT ![arg[t]] = @ + 1]
  /\ paced' = [paced EXCEPT ![t] = "fetched"]
  /\ pc' = [pc EXCEPT ![t] = "crashed"]
  /\ UNCHANGED <<config, extracted, visited_urls, content_hashes, url_queue,
                 unfinished_tasks, lock, arg, resp, found, started, joined,
                 calls, put_log>>

NextFault ==
  \/ Next
  \/ \E t \in Workers : VisitRaises(t)

SpecFault == Init /\ [][NextFault]_vars

\* ------------------------------- the crawl with further tuples queued
\* A tuple is put on url_queue while the workers run, as line 114 would.
FeedPut(p, u) ==
  /\ calls < MaxCalls
  /\ calls' = calls + 1
  /\ url_queue' = Append(url_queue, Entry(p, u))
  /\ unfinished_tasks' = unfinished_tasks + 1
  /\ put_log' = Append(put_log, Entry(p, u))
  /\ UNCHANGED <<config, extracted, paced, visited_urls, content_hashes, lock,
                 pc, arg, resp, found, started, joined, fetches>>

InitPool ==
  /\ start_url = Home
  /\ max_threads = MaxThreads
  /\ exclude_patterns = <<>>
  /\ web = CyclicSite
  /\ InitObject
  /\ pc = [t \in Threads |-> "not_started"]

NextPool ==
  \/ Next
  \/ FeedPut(DefaultPriority, About)

SpecPool == InitPool /\ [][NextPool]_vars

\* ------------------------------------------- visit_url called directly
\* The URLs the callers pass.
CallUrls == {Home, Login}

\* The crawler of the tests: WebCrawler("https://example.com", max_threads=1).
InitVisit ==
  /\ start_url = Home
  /\ max_threads = 1
  /\ InitObject
  /\ pc = [t \in Threads |-> "c_idle"]

\* A thread calls crawler.visit_url(u) with a URL string.
CallVisit(t, u) ==
  /\ pc[t] = "c_idle"
  /\ calls < MaxCalls
  /\ calls' = calls + 1
  /\ arg' = [arg EXCEPT ![t] = Str(u)]
  /\ resp' = [resp EXCEPT ![t] = ""]
  /\ found' = [found EXCEPT ![t] = FALSE]
  /\ pc' = [pc EXCEPT ![t] = "v_check"]
  /\ UNCHANGED <<config, extracted, paced, visited_urls, content_hashes,
                 url_queue, unfinished_tasks, lock, started, joined, fetches,
                 put_log>>

\* The pages handed to extract_links directly.
ExtractUrls == {Home, About, SubHome}

\* A thread calls crawler.extract_links(soup, u) on the parsed page of u.
CallExtract(t, u) ==
  /\ pc[t] = "c_idle"
  /\ calls < MaxCalls
  /\ calls' = calls + 1
  /\ links' = [links EXCEPT ![t] =
                 extract_links(web[u].links, u, base_domain, exclude_patterns)]
  /\ link_base' = [link_base EXCEPT ![t] = u]
  /\ UNCHANGED <<config, paced, visited_urls, content_hashes, url_queue,
                 unfinished_tasks, lock, pc, arg, resp, found, started,
                 joined, fetches, put_log>>

CallerStep(t) ==
  \/ \E u \in CallUrls : CallVisit(t, u)
  \/ \E u \in ExtractUrls : CallExtract(t, u)
  \/ VisitCheck(t)
  \/ LockAcquire(t)
  \/ VisitedAdd(t)
  \/ Fetch(t)
  \/ DedupCheck(t)
  \/ DedupAdd(t)
  \/ VisitBranch(t)

NextVisit == \E t \in Callers : CallerStep(t)

SpecVisit == InitVisit /\ [][NextVisit]_vars

\* ------------------------------------------ url_queue used directly
\* The tuples put: the priorities of lines 110 and 113, same-domain URLs.
PutPriorities == {PaginationPriority, DefaultPriority}
PutUrls == {About, Login}

InitFrontier ==
  /\ start_url = Home
  /\ max_threads = 1
  /\ InitObject
  /\ pc = [t \in Threads |-> "c_idle"]

\* self.url_queue.put((priority_score, link)), as at lines 38 and 114.
QueuePut(t, p, u) ==
  /\ pc[t] = "c_idle"
  /\ calls < MaxCalls
  /\ calls' = calls + 1
  /\ url_queue' = Append(url_queue, Entry(p, u))
  /\ unfinished_tasks' = unfinished_tasks + 1
  /\ put_log' = Append(put_log, Entry(p, u))
  /\ UNCHANGED <<config, extracted, paced, visited_urls, content_hashes, lock,
                 pc, arg, resp, found, started, joined, fetches>>

\* self.url_queue.get(), as at line 75: blocks while the queue is empty.
QueueGet(t) ==
  /\ pc[t] = "c_idle"
  /\ url_queue # <<>>
  /\ LET i == MinIndex(url_queue)
     IN /\ arg' = [arg EXCEPT ![t] = url_queue[i]]
        /\ url_queue' = RemoveAt(url_queue, i)
  /\ UNCHANGED <<config, extracted, paced, visited_urls, content_hashes,
                 unfinished_tasks, lock, pc, resp, found, started, joined,
                 calls, fetches, put_log>>

NextFrontier ==
  \E t \in Callers :
    \/ \E p \in PutPriorities, u \in PutUrls : QueuePut(t, p, u)
    \/ QueueGet(t)

SpecFrontier == InitFrontier /\ [][NextFrontier]_vars

\* ================================================================ claims
\* Shorthands of the properties below.
NumPuts(u) == Cardinality({i \in 1..Len(put_log) : put_log[i].url = u})

FetchesOf(u) ==
  fetches[Str(u)] + fetches[Entry(1, u)] + fetches[Entry(2, u)]

VisitedOnce(u) ==
  /\ \E v \in visited_urls : v.url = u
  /\ FetchesOf(u) = 1

\* The links of page u that are eligible for the frontier.
EligibleLinks(u) ==
  extract_links(web[u].links, u, base_domain, exclude_patterns)

\* The URLs reachable from the set S through eligible links.
RECURSIVE Reach(_)
Reach(S) ==
  LET next == S \cup UNION {{EligibleLinks(u)[i] : i \in 1..Len(EligibleLinks(u))}
                            : u \in S}
  IN IF next = S THEN S ELSE Reach(next)

\* A thread is between a dequeue and the end of that loop iteration.
MidVisit(t) ==
  pc[t] \in {"v_check", "v_acquire", "v_add", "v_fetch", "d_check", "d_add",
             "v_branch", "w_sleep", "w_task_done"}

Eligible(u) ==
  /\ Netloc(u) = base_domain
  /\ \A k \in 1..Len(exclude_patterns) : ~re_search(exclude_patterns[k], u)

\* C1: a URL is put on the frontier at most once, and after a visit that
\* fetched a page whose content was not yet recorded, each eligible link of
\* the page is visited or has been put exactly once (N eligible offers leave
\* N entries).
C1_EligibleOffersEnqueuedOnce ==
  /\ \A u \in URL : NumPuts(u) <= 1
  /\ \A t \in Threads :
       (pc[t] = "c_idle" /\ resp[t] # "" /\ ~found[t]) =>
         \A i \in 1..Len(EligibleLinks(arg[t].url)) :
           \/ Str(EligibleLinks(arg[t].url)[i]) \in visited_urls
           \/ NumPuts(EligibleLinks(arg[t].url)[i]) = 1

\* C2: no argument of visit_url is fetched more than once, whatever the
\* interleaving of the threads that visit it.
C2_FetchedAtMostOnce == \A a \in PyValues : fetches[a] <= 1

\* C3: once the frontier is empty and no worker is mid-visit, no worker is
\* blocked waiting to dequeue.
C3_NoWorkerBlockedOnEmptyFrontier ==
  (url_queue = <<>> /\ \A t \in Workers : ~MidVisit(t)) =>
    \A t \in Workers : pc[t] # "w_get"

\* C4: no URL whose host differs from the base domain is in the frontier
\* queue or in the visited set.
C4_NoForeignHost ==
  /\ \A i \in 1..Len(url_queue) : Netloc(url_queue[i].url) = base_domain
  /\ \A v \in visited_urls : Netloc(v.url) = base_domain

\* C4 witness: crawl() has returned after visiting a seed whose page links
\* to a subdomain and to an external host.
C4_Witness ==
  /\ joined = max_threads
  /\ \E v \in visited_urls : v.url = start_url
  /\ \E i \in 1..Len(web[start_url].links) :
       Netloc(urljoin(start_url, web[start_url].links[i])) = "sub.example.com"
  /\ \E i \in 1..Len(web[start_url].links) :
       Netloc(urljoin(start_url, web[start_url].links[i])) = "external.com"
  /\ base_domain = "example.com"

\* C5: when crawl() has returned, the visited URLs are exactly the in-domain
\* URLs reachable from the seed, each fetched once, for every worker count.
C5_ReachableVisitedOnce ==
  joined = max_threads =>
    /\ {v.url : v \in visited_urls} = Reach({start_url})
    /\ \A u \in Reach({start_url}) : VisitedOnce(u)

\* C6: on the cyclic graph A -> B, B -> A seeded at A, when crawl() has
\* returned A and B have each been visited exactly once.
C6_CycleVisitedOnce ==
  (web = CyclicSite /\ start_url = Home /\ joined = max_threads) =>
    VisitedOnce(Home) /\ VisitedOnce(About)

\* C7: is_duplicate_content reports a body whose fingerprint was not yet
\* recorded as novel (not a duplicate), and one whose fingerprint was
\* recorded as a duplicate.
C7_FirstNovelThenDuplicate ==
  \A t \in Threads :
    pc[t] = "v_branch" => (is_duplicate_content(found[t]) <=> found[t])

\* C8: of the threads that check identical content not seen before, at most
\* one finds its fingerprint absent and goes on to record it.
C8_AtMostOneFindsContentNew ==
  \A t1, t2 \in Threads :
    (t1 # t2 /\ pc[t1] = "d_add" /\ pc[t2] = "d_add") =>
      Sha256(resp[t1]) # Sha256(resp[t2])

\* C9: every link extract_links hands to the enqueue loop, and every tuple
\* put on the frontier after the seed, is same-domain and matches no
\* exclusion pattern.
C9_OnlyEligibleLinksOffered ==
  /\ \A t \in Threads : \A i \in 1..Len(links[t]) : Eligible(links[t][i])
  /\ \A i \in 2..Len(put_log) : Eligible(put_log[i].url)

\* C9 witness: with the pattern "login", the links extracted from a page
\* that links to /login leave it out.
C9_Witness ==
  /\ exclude_patterns = <<"login">>
  /\ web = RichSite
  /\ \E t \in Threads : links[t] = <<About, Home>>

\* C10: every dequeue returns a tuple whose priority is minimal among the
\* tuples pending at that moment.
C10_DequeueMinimalPriority ==
  [][Len(url_queue') = Len(url_queue) - 1 =>
       \E t \in Threads :
         /\ \A o \in Threads \ {t} : arg'[o] = arg[o]
         /\ \E i \in 1..Len(url_queue) :
              /\ arg'[t] = url_queue[i]
              /\ url_queue' = RemoveAt(url_queue, i)
         /\ \A j \in 1..Len(url_queue) : arg'[t].prio <= url_queue[j].prio]_vars

\* C10 witness: /login was put at priority 0.5 after /about at priority 1,
\* and has been dequeued while /about is still pending.
C10_Witness ==
  /\ put_log = <<Entry(SeedPriority, Home), Entry(DefaultPriority, About),
                 Entry(PaginationPriority, Login)>>
  /\ url_queue = <<Entry(DefaultPriority, About)>>
  /\ \E t \in Threads : arg[t] = Entry(PaginationPriority, Login)

\* C11: among pending tuples of equal priority, a dequeue returns the one
\* that was enqueued first (url_queue is kept in insertion order).
C11_FifoWithinPriority ==
  [][Len(url_queue') = Len(url_queue) - 1 =>
       \E i \in 1..Len(url_queue) :
         /\ url_queue' = RemoveAt(url_queue, i)
         /\ \E t \in Threads : arg'[t] = url_queue[i]
         /\ \A j \in 1..(i - 1) : url_queue[j].prio # url_queue[i].prio]_vars

\* A worker's request failed and its visit_url has ended.
FetchFailed(t) ==
  /\ arg[t] # None
  /\ fetches[arg[t]] >= 1
  /\ resp[t] = ""
  /\ pc[t] \notin {"v_check", "v_acquire", "v_add", "v_fetch"}

C13_VisitAddsOnlyItsArgument ==
  /\ \A t \in Callers :
       (pc[t] = "c_idle" /\ resp[t] # "") => arg[t] \in visited_urls
  /\ \A v \in visited_urls :
       \/ fetches[v] >= 1
       \/ \E t \in Callers : arg[t] = v /\ pc[t] = "v_fetch"

\* C13 witness: visit_url(home) has completed with a fetched page that links
\* to /about; home is visited and /about is not.
C13_Witness ==
  \E t \in Callers :
    /\ pc[t] = "c_idle"
    /\ resp[t] # ""
    /\ arg[t] = Str(Home)
    /\ \E i \in 1..Len(web[Home].links) : urljoin(Home, web[Home].links[i]) = About
    /\ Str(Home) \in visited_urls
    /\ Str(About) \notin visited_urls

\* The anchors of page u resolved against u, in document order.
ResolvedAnchors(u) ==
  [i \in 1..Len(web[u].links) |-> urljoin(u, web[u].links[i])]

\* C14: extract_links returns exactly the resolved anchors that are
\* same-domain and not excluded, in the order of the anchors; for the home
\* page of example.com with anchors /about, sub.example.com, /login,
\* external.com and example.com and no exclusion pattern, that is
\* /about, /login, example.com.
C14_ExtractLinksExactInOrder ==
  \A t \in Threads :
    /\ link_base[t] = NoUrl => links[t] = <<>>
    /\ link_base[t] # NoUrl =>
         links[t] = SelectSeq(ResolvedAnchors(link_base[t]), Eligible)
    /\ (link_base[t] = Home /\ web = RichSite /\ exclude_patterns = <<>>) =>
         links[t] = <<About, Login, Home>>

\* C14 witness: extract_links has run on that home page and dropped the
\* subdomain and the external link.
C14_Witness ==
  \E t \in Threads :
    /\ link_base[t] = Home
    /\ web = RichSite
    /\ exclude_patterns = <<>>
    /\ links[t] = <<About, Login, Home>>

\* C15: when the fingerprint of the fetched page was already recorded, the
\* step that ends the visit extracts no links and leaves the frontier queue
\* as it was.
C15_DuplicateContentSkipsExtraction ==
  [][\A t \in Threads :
       (pc[t] = "v_branch" /\ found[t] /\ pc'[t] # "v_branch") =>
         /\ pc'[t] = ReturnTo(t)
         /\ links'[t] = links[t]
         /\ link_base'[t] = link_base[t]
         /\ url_queue' = url_queue
         /\ put_log' = put_log]_vars

\* C15 witness: a visit has ended on a page whose fingerprint was already
\* recorded, with no links extracted by that thread.
C15_Witness ==
  \E t \in Callers :
    /\ pc[t] = "c_idle"
    /\ resp[t] # ""
    /\ found[t]
    /\ links[t] = <<>>
    /\ url_queue = <<Entry(SeedPriority, start_url)>>

C17_NoLockWhileSuspended ==
  /\ \A t \in Threads : pc[t] \in {"v_fetch", "w_sleep"} => lock # t
  /\ lock # 0 => pc[lock] = "v_add"

\* C17 witness: one worker sleeps with the lock free after its visit.
C17_Witness ==
  \E t \in Workers :
    pc[t] = "w_sleep" /\ lock = 0 /\ fetches[arg[t]] = 1

\* C18: after an unexpected error has ended one worker, the pool is not
\* stopped: once the frontier is empty and no worker is mid-visit, no other
\* worker is left blocked, so the crawl terminates.
C18_CrashDoesNotStopCrawl ==
  ((\E c \in Workers : pc[c] = "crashed")
     /\ url_queue = <<>>
     /\ \A t \in Workers : ~MidVisit(t)) =>
    \A t \in Workers : pc[t] # "w_get"


\* C19: politeness is per worker: a worker that has issued a request sleeps
\* before it issues its next one, and while some worker sleeps another worker
\* with an entry to take can dequeue it and one about to request can request.
C19_PolitenessPerWorker ==
  \A t \in Workers :
    /\ pc[t] = "v_fetch" => paced[t] # "fetched"
    /\ (\E s \in Workers \ {t} : pc[s] = "w_sleep") =>
         /\ (pc[t] = "w_get" /\ url_queue # <<>>) => ENABLED WorkerGet(t)
         /\ pc[t] = "v_fetch" => ENABLED Fetch(t)

\* A worker at its second request, having slept since its first, while
\* another worker is in its delay.
C19_Witness ==
  \E t \in Workers : \E s \in Workers \ {t} :
    /\ pc[t] = "v_fetch"
    /\ paced[t] = "slept"
    /\ pc[s] = "w_sleep"


\* C20: whenever crawl() has returned (every worker thread is joined), the
\* frontier queue is empty and the URL of every tuple ever put on it, the
\* seed included, is in the visited set.
C20_ReturnedMeansAllVisited ==
  joined = max_threads =>
    /\ url_queue = <<>>
    /\ \A i \in 1..Len(put_log) : Str(put_log[i].url) \in visited_urls

====
